---------------------------- MODULE Spec2Model ----------------------------
(***************************************************************************)
(* A model of the NY Times API clients of dst-newsfeed:                    *)
(*   src/newsfeed/etl/extract.py          ApiNames, ApiNyTimes,            *)
(*                                        MostPopular, TimesWire           *)
(*   src/newsfeed/extract/api_newswire.py ExtractApiNewsWire               *)
(*                                                                         *)
(* Python objects are maps from attribute names to values, a method is an  *)
(* operator of its receiver and arguments, and one action is one call of a *)
(* constructor or a method, from the call to its return or its exception.  *)
(* URLs, file names and paths are strings; the bodies of HTTP responses    *)
(* and the contents of files are sequences of characters, so that          *)
(* json.dump and response.json() are a serialiser and a parser.            *)
(***************************************************************************)
EXTENDS Integers, Sequences, FiniteSets, TLC

(***************************************************************************)
(* JSON values, json.dump and json.loads                                   *)
(***************************************************************************)

\* A JSON value as Python holds it: None, bool, int, str, list, dict, each a
\* record tagged with its type.  A dict is the sequence of its <<key, value>>
\* pairs in insertion order.
JNull == [t |-> "null"]
JBool(b) == [t |-> "bool", b |-> b]
JNum(n) == [t |-> "num", n |-> n]
JStr(s) == [t |-> "str", s |-> s]
JArr(xs) == [t |-> "arr", xs |-> xs]
JObj(kvs) == [t |-> "obj", kvs |-> kvs]

DigitChars == <<"0", "1", "2", "3", "4", "5", "6", "7", "8", "9">>

RECURSIVE NatChars(_)
NatChars(n) ==
    IF n < 10 THEN <<DigitChars[n + 1]>>
    ELSE NatChars(n \div 10) \o <<DigitChars[(n % 10) + 1]>>

\* int.__repr__, as json's encoder writes an int.
IntChars(n) == IF n < 0 THEN <<"-">> \o NatChars(0 - n) ELSE NatChars(n)

\* The encoder's escapes of a string's characters (py_encode_basestring_ascii).
EscapeChar(c) ==
    CASE c = "\"" -> <<"\\", "\"">>
      [] c = "\\" -> <<"\\", "\\">>
      [] c = "\n" -> <<"\\", "n">>
      [] OTHER -> <<c>>

RECURSIVE EscapeChars(_)
EscapeChars(s) ==
    IF s = <<>> THEN <<>> ELSE EscapeChar(Head(s)) \o EscapeChars(Tail(s))

EncodeString(s) == <<"\"">> \o EscapeChars(s) \o <<"\"">>

RECURSIVE Encode(_, _, _)
RECURSIVE EncodeItems(_, _, _)
RECURSIVE EncodeMembers(_, _, _)

\* JSONEncoder.iterencode with the given item and key separators.
Encode(x, itemSep, keySep) ==
    CASE x.t = "null" -> <<"n", "u", "l", "l">>
      [] x.t = "bool" ->
            IF x.b THEN <<"t", "r", "u", "e">> ELSE <<"f", "a", "l", "s", "e">>
      [] x.t = "num" -> IntChars(x.n)
      [] x.t = "str" -> EncodeString(x.s)
      [] x.t = "arr" -> <<"[">> \o EncodeItems(x.xs, itemSep, keySep) \o <<"]">>
      [] x.t = "obj" -> <<"{">> \o EncodeMembers(x.kvs, itemSep, keySep) \o <<"}">>

EncodeItems(xs, itemSep, keySep) ==
    IF xs = <<>> THEN <<>>
    ELSE Encode(Head(xs), itemSep, keySep)
         \o (IF Tail(xs) = <<>> THEN <<>> ELSE itemSep)
         \o EncodeItems(Tail(xs), itemSep, keySep)

EncodeMembers(kvs, itemSep, keySep) ==
    IF kvs = <<>> THEN <<>>
    ELSE EncodeString(Head(kvs)[1]) \o keySep
         \o Encode(Head(kvs)[2], itemSep, keySep)
         \o (IF Tail(kvs) = <<>> THEN <<>> ELSE itemSep)
         \o EncodeMembers(Tail(kvs), itemSep, keySep)

\* json.dump(data, file) with its default separators (", ", ": ").
json_dump(data) == Encode(data, <<",", " ">>, <<":", " ">>)

\* The text an HTTP server sends for a JSON value: no insignificant space.
WireText(data) == Encode(data, <<",">>, <<":">>)

\* json.loads: a recursive-descent parser.  Every parse operator returns
\* [ok, v, i]: whether it succeeded, the value, and the index after it.
ParseFail(i) == [ok |-> FALSE, v |-> JNull, i |-> i]
ParseOk(v, i) == [ok |-> TRUE, v |-> v, i |-> i]

IsSpace(c) == c \in {" ", "\n", "\t", "\r"}
IsDigit(c) == c \in {"0", "1", "2", "3", "4", "5", "6", "7", "8", "9"}
DigitValue(c) == CHOOSE d \in 0..9 : DigitChars[d + 1] = c

RECURSIVE SkipSpace(_, _)
SkipSpace(s, i) ==
    IF i <= Len(s) /\ IsSpace(s[i]) THEN SkipSpace(s, i + 1) ELSE i

HasWord(s, i, w) ==
    /\ i + Len(w) - 1 <= Len(s)
    /\ SubSeq(s, i, i + Len(w) - 1) = w

RECURSIVE ParseDigits(_, _, _)
ParseDigits(s, i, acc) ==
    IF i <= Len(s) /\ IsDigit(s[i])
    THEN ParseDigits(s, i + 1, acc * 10 + DigitValue(s[i]))
    ELSE ParseOk(acc, i)

\* An integer literal: an optional sign, then 0 or digits without a leading 0.
ParseNumber(s, i) ==
    LET neg == i <= Len(s) /\ s[i] = "-"
        j == IF neg THEN i + 1 ELSE i
    IN  IF ~(j <= Len(s) /\ IsDigit(s[j])) THEN ParseFail(i)
        ELSE LET d == IF s[j] = "0" THEN ParseOk(0, j + 1)
                      ELSE ParseDigits(s, j, 0)
             IN  ParseOk(JNum(IF neg THEN 0 - d.v ELSE d.v), d.i)

\* The characters of a string literal, from after its opening quote.
RECURSIVE ParseStringBody(_, _, _)
ParseStringBody(s, i, acc) ==
    IF i > Len(s) THEN ParseFail(i)
    ELSE IF s[i] = "\"" THEN ParseOk(acc, i + 1)
    ELSE IF s[i] = "\n" THEN ParseFail(i)
    ELSE IF s[i] = "\\"
         THEN IF i + 1 > Len(s) THEN ParseFail(i)
              ELSE IF s[i + 1] \in {"\"", "\\", "/"}
                   THEN ParseStringBody(s, i + 2, Append(acc, s[i + 1]))
              ELSE IF s[i + 1] = "n"
                   THEN ParseStringBody(s, i + 2, Append(acc, "\n"))
              ELSE ParseFail(i)
    ELSE ParseStringBody(s, i + 1, Append(acc, s[i]))

RECURSIVE ParseValue(_, _)
RECURSIVE ParseItems(_, _, _)
RECURSIVE ParseMembers(_, _, _)

ParseValue(s, i0) ==
    LET i == SkipSpace(s, i0)
    IN  IF i > Len(s) THEN ParseFail(i)
        ELSE IF HasWord(s, i, <<"n", "u", "l", "l">>) THEN ParseOk(JNull, i + 4)
        ELSE IF HasWord(s, i, <<"t", "r", "u", "e">>)
             THEN ParseOk(JBool(TRUE), i + 4)
        ELSE IF HasWord(s, i, <<"f", "a", "l", "s", "e">>)
             THEN ParseOk(JBool(FALSE), i + 5)
        ELSE IF s[i] = "\""
             THEN LET r == ParseStringBody(s, i + 1, <<>>)
                  IN  IF r.ok THEN ParseOk(JStr(r.v), r.i) ELSE ParseFail(i)
        ELSE IF s[i] = "["
             THEN LET j == SkipSpace(s, i + 1)
                  IN  IF j <= Len(s) /\ s[j] = "]" THEN ParseOk(JArr(<<>>), j + 1)
                      ELSE ParseItems(s, j, <<>>)
        ELSE IF s[i] = "{"
             THEN LET j == SkipSpace(s, i + 1)
                  IN  IF j <= Len(s) /\ s[j] = "}" THEN ParseOk(JObj(<<>>), j + 1)
                      ELSE ParseMembers(s, j, <<>>)
        ELSE ParseNumber(s, i)

\* value ("," value)* "]"
ParseItems(s, i, acc) ==
    LET r == ParseValue(s, i)
        j == SkipSpace(s, r.i)
    IN  IF ~r.ok \/ j > Len(s) THEN ParseFail(i)
        ELSE IF s[j] = "]" THEN ParseOk(JArr(Append(acc, r.v)), j + 1)
        ELSE IF s[j] = "," THEN ParseItems(s, j + 1, Append(acc, r.v))
        ELSE ParseFail(j)

\* A dict keeps one entry per key: a repeated key keeps its first place and
\* takes the later value.
PutMember(kvs, k, x) ==
    IF \E n \in 1..Len(kvs) : kvs[n][1] = k
    THEN [n \in 1..Len(kvs) |-> IF kvs[n][1] = k THEN <<k, x>> ELSE kvs[n]]
    ELSE Append(kvs, <<k, x>>)

\* string ":" value ("," string ":" value)* "}"
ParseMembers(s, i0, acc) ==
    LET i == SkipSpace(s, i0)
    IN  IF ~(i <= Len(s) /\ s[i] = "\"") THEN ParseFail(i)
        ELSE LET k == ParseStringBody(s, i + 1, <<>>)
                 c == SkipSpace(s, k.i)
             IN  IF ~k.ok \/ c > Len(s) THEN ParseFail(i)
                 ELSE IF s[c] # ":" THEN ParseFail(c)
                 ELSE LET r == ParseValue(s, c + 1)
                          j == SkipSpace(s, r.i)
                      IN  IF ~r.ok \/ j > Len(s) THEN ParseFail(c)
                          ELSE IF s[j] = "}"
                               THEN ParseOk(JObj(PutMember(acc, k.v, r.v)), j + 1)
                          ELSE IF s[j] = ","
                               THEN ParseMembers(s, j + 1, PutMember(acc, k.v, r.v))
                          ELSE ParseFail(j)

\* json.loads(text): one value and nothing but space after it; ok = FALSE is
\* JSONDecodeError.
json_loads(s) ==
    LET r == ParseValue(s, 1)
    IN  IF r.ok /\ SkipSpace(s, r.i) > Len(s) THEN r ELSE ParseFail(r.i)

(***************************************************************************)
(* Python values                                                           *)
(***************************************************************************)

\* None where the code expects a str, and a parameter the caller leaves out.
None == "<None>"
Omitted == "<omitted>"

\* None where the code expects a dict.
PyNone == [py |-> "None"]

\* str(x), as an f-string formats x.
Str(x) == IF x = None THEN "None" ELSE x

\* bool(x) of a str or None, as "if x" tests it.
Truthy(x) == x # None /\ x # ""

\* bool(d) of a dict or None.
DictTruthy(d) == d # PyNone /\ DOMAIN d # {}

\* A parameter's value: the default when the caller leaves it out.
Arg(x, default) == IF x = Omitted THEN default ELSE x

\* An object is the map of its attributes; NoObject is a name bound to none.
NoObject == [class |-> "NoObject"]
HasAttr(self, a) == a \in DOMAIN self

\* How a call ends: it returns a value or raises, and has sent `requests`.
Return(value, requests) == [exc |-> "", value |-> value, requests |-> requests]
Raise(exc, requests) == [exc |-> exc, value |-> JNull, requests |-> requests]

(***************************************************************************)
(* class ApiNames                                                          *)
(***************************************************************************)
BASE_URL == "https://api.nytimes.com/svc"
BASE_POPULAR == BASE_URL \o "/mostpopular/v2"
BASE_POPULAR_EMAILED == BASE_POPULAR \o "/emailed"
BASE_POPULAR_SHARED == BASE_POPULAR \o "/shared"
BASE_POPULAR_VIEWED == BASE_POPULAR \o "/viewed"
BASE_WIRE == BASE_URL \o "/news/v3/content"
BASE_WIRE_LATEST == BASE_WIRE \o ".json"
BASE_WIRE_SECTION_LIST == BASE_WIRE \o "/section-list.json"

(***************************************************************************)
(* The environment: os.environ, the clock, the HTTP server, the disk       *)
(***************************************************************************)

\* The process environments: NY_API_KEY set or not, BASE_URL set or not.
ApiKey == "key-1"
DefaultBaseUrl == "https://api.nytimes.com/"
LocalBaseUrl == "http://localhost:8000/mock/"
Environments ==
    { <<>>,
      [BASE_URL |-> LocalBaseUrl],
      [NY_API_KEY |-> ApiKey],
      [NY_API_KEY |-> ApiKey, BASE_URL |-> LocalBaseUrl] }

\* os.getenv(name, default)
getenv(e, name, default) == IF name \in DOMAIN e THEN e[name] ELSE default

\* urlsplit(url): the scheme and authority of a base URL, and its path.
UrlOrigin(url) ==
    CASE url = DefaultBaseUrl -> "https://api.nytimes.com"
      [] url = LocalBaseUrl -> "http://localhost:8000"

\* urljoin(base, path) for a path that starts with "/", as every url_path of
\* get_data does: the reference replaces the whole path of the base.
urljoin(base, path) == UrlOrigin(base) \o path

\* datetime.now().strftime("%y_%m_%d-%H_%M_%S"), on a day whose seconds the
\* clock counts from 09:59:59.
Pad2(n) == IF n < 10 THEN "0" \o ToString(n) ELSE ToString(n)
ClockOrigin == [hour |-> 9, minute |-> 59, second |-> 59]
NowSeconds(c) ==
    (ClockOrigin.hour * 60 + ClockOrigin.minute) * 60 + ClockOrigin.second + c
strftime(c) ==
    LET t == NowSeconds(c)
    IN  "26_11_03-" \o Pad2(t \div 3600) \o "_" \o Pad2((t \div 60) % 60)
        \o "_" \o Pad2(t % 60)

\* dt.date.today() on that day.
today == [month |-> 11, day |-> 3]

\* JSON payloads the API serves.
K_status == <<"s", "t", "a", "t", "u", "s">>
K_results == <<"r", "e", "s", "u", "l", "t", "s">>
K_title == <<"t", "i", "t", "l", "e">>
K_views == <<"v", "i", "e", "w", "s">>
K_fault == <<"f", "a", "u", "l", "t">>
OkEmpty ==
    JObj(<< <<K_status, JStr(<<"O", "K">>)>>, <<K_results, JArr(<<>>)>> >>)
OkArticles ==
    JObj(<< <<K_status, JStr(<<"O", "K">>)>>,
            <<K_results,
              JArr(<< JObj(<< <<K_title, JStr(<<"a", "\"", "\\", "\n", "b">>)>>,
                              <<K_views, JNum(0 - 120)>> >>),
                      JNull, JBool(TRUE) >>)>> >>)
Fault == JObj(<< <<K_fault, JStr(<<"n", "o">>)>> >>)
Payloads == <<OkEmpty, OkArticles, Fault>>

\* What the server can answer to one GET: no answer (a connection failure or
\* a timeout), or a status with a body that is JSON or is not.
NotJson == <<"<", "h", "t", "m", "l", ">">>
Bodies == {WireText(Payloads[n]) : n \in 1..Len(Payloads)} \cup {NotJson}
Statuses == {200, 404}
Responses ==
    {[kind |-> "failure", status |-> 0, body |-> <<>>]}
    \cup [kind : {"http"}, status : Statuses, body : Bodies]

(***************************************************************************)
(* requests.get and Response.json                                          *)
(***************************************************************************)

\* requests.get(url, params=params, timeout=timeout) answered by `resp`, then
\* response.json(): one request goes out; no answer raises ConnectionError,
\* a body that is not JSON raises JSONDecodeError, and any other answer,
\* whatever its status, returns the decoded body.
get_json(url, params, timeout, resp) ==
    LET request == [url |-> url, params |-> params, timeout |-> timeout]
        decoded == json_loads(resp.body)
    IN  IF resp.kind = "failure" THEN Raise("ConnectionError", <<request>>)
        ELSE IF ~decoded.ok THEN Raise("JSONDecodeError", <<request>>)
        ELSE Return(decoded.v, <<request>>)

\* A slip: file.write(str(data)), which writes the dict's repr, its strings
\* in single quotes.
write_repr(fs, path, data) ==
    LET text == json_dump(data)
    IN  (path :> [n \in 1..Len(text) |-> IF text[n] = "\"" THEN "'" ELSE text[n]])
        @@ fs

\* A slip: open(path, "a"), which keeps what the file held.
write_json_append(fs, path, data) ==
    (path :> (IF path \in DOMAIN fs THEN fs[path] ELSE <<>>) \o json_dump(data))
    @@ fs

\* open(path, "w") then json.dump(data, file): the file is created or
\* truncated and holds the serialised data.
write_json(fs, path, data) == (path :> json_dump(data)) @@ fs

(***************************************************************************)
(* class ApiNyTimes                                                        *)
(***************************************************************************)

\* ApiNyTimes.__init__(path_storage, uri): KeyError without NY_API_KEY.
ApiNyTimes_new(e, path_storage, uri) ==
    IF "NY_API_KEY" \notin DOMAIN e THEN NoObject
    ELSE [class |-> "ApiNyTimes",
          API_KEY |-> e["NY_API_KEY"],
          PATH_STORAGE |->
              IF path_storage # None THEN path_storage ELSE "../../data/raw/",
          URI |-> uri]

\* A slip: the payload taken as the parameters, not added to them.
ApiNyTimes_get_data_payload_only(self, url, payload, resp) ==
    IF ~HasAttr(self, "API_KEY") THEN Raise("AttributeError", <<>>)
    ELSE LET key == "api-key" :> self.API_KEY
             params == IF DictTruthy(payload) THEN payload ELSE key
         IN  get_json(url, params, <<10, 30>>, resp)

\* The body of ApiNyTimes._get_data(self, url, payload).
ApiNyTimes_get_data(self, url, payload, resp) ==
    IF ~HasAttr(self, "API_KEY") THEN Raise("AttributeError", <<>>)
    ELSE LET key == "api-key" :> self.API_KEY
             params == IF DictTruthy(payload) THEN payload @@ key ELSE key
         IN  get_json(url, params, <<10, 30>>, resp)

\* A call self._get_data(*args): url and payload are both required, so a
\* call with fewer arguments raises TypeError before the body runs.
call_get_data(self, args, resp) ==
    IF Len(args) < 2 THEN Raise("TypeError", <<>>)
    ELSE ApiNyTimes_get_data(self, args[1], args[2], resp)

\* ApiNyTimes._save_data(self, data, filename): the result is the exception
\* (or ""), the path and the files after the call.  `writable` is whether
\* open() succeeds.
ApiNyTimes_save_data(self, data, filename, fs, writable) ==
    IF ~HasAttr(self, "PATH_STORAGE")
    THEN [exc |-> "AttributeError", path |-> "", files |-> fs]
    ELSE LET path_file == self.PATH_STORAGE \o filename
         IN  IF ~writable THEN [exc |-> "OSError", path |-> path_file, files |-> fs]
             ELSE [exc |-> "", path |-> path_file,
                   files |-> write_json(fs, path_file, data)]

(***************************************************************************)
(* class MostPopular(ApiNyTimes)                                           *)
(***************************************************************************)

\* MostPopular.__init__(): it does not call ApiNyTimes.__init__.
MostPopular_new ==
    [class |-> "MostPopular",
     URI |-> BASE_POPULAR,
     endpoints |-> [emailed |-> BASE_POPULAR_EMAILED,
                    shared |-> BASE_POPULAR_SHARED,
                    viewed |-> BASE_POPULAR_VIEWED]]

MostPopular_get_content(self, endpoint, period, resp) ==
    LET url == endpoint \o "/" \o ToString(period) \o ".json"
    IN  call_get_data(self, <<url>>, resp)

MostPopular_get_emailed(self, period, resp) ==
    LET url == self.endpoints["emailed"] \o "/" \o ToString(period) \o ".json"
    IN  call_get_data(self, <<url>>, resp)

MostPopular_get_shared(self, period, resp) ==
    LET url == self.endpoints["shared"] \o "/" \o ToString(period) \o ".json"
    IN  call_get_data(self, <<url>>, resp)

MostPopular_get_viewed(self, period, resp) ==
    LET url == self.endpoints["viewed"] \o "/" \o ToString(period) \o ".json"
    IN  call_get_data(self, <<url>>, resp)

MostPopular_filename(endpoint, period) ==
    "most_popular_" \o endpoint \o "_" \o ToString(period) \o "d_"
    \o ToString(today.month) \o "_" \o ToString(today.day) \o ".json"

MostPopular_save_content(self, data, endpoint, period, fs, writable) ==
    ApiNyTimes_save_data(self, data, MostPopular_filename(endpoint, period),
                         fs, writable)

(***************************************************************************)
(* class TimesWire(ApiNyTimes)                                             *)
(***************************************************************************)

\* The attributes TimesWire.__init__ assigns before it fetches the sections.
TimesWire_attrs ==
    [class |-> "TimesWire",
     URI |-> BASE_WIRE,
     endpoints |-> [content |-> BASE_WIRE,
                    latest |-> BASE_WIRE_LATEST,
                    section_list |-> BASE_WIRE_SECTION_LIST]]

TimesWire_get_section_list(self, resp) ==
    LET url == self.endpoints["section_list"]
    IN  call_get_data(self, <<url>>, resp)

\* TimesWire.__init__(): the result of its get_section_list call, and the
\* object when that call returns, none when it raises.
TimesWire_new(resp) ==
    LET fetched == TimesWire_get_section_list(TimesWire_attrs, resp)
    IN  [call |-> fetched,
         object |-> IF fetched.exc = ""
                    THEN [class |-> "TimesWire",
                          URI |-> TimesWire_attrs.URI,
                          endpoints |-> TimesWire_attrs.endpoints,
                          sections |-> fetched.value]
                    ELSE NoObject]

TimesWire_get_content(self, source, section, resp) ==
    LET url == self.endpoints["content"] \o "/" \o Str(Arg(source, "all"))
               \o "/" \o Str(Arg(section, "all")) \o ".json"
    IN  call_get_data(self, <<url>>, resp)

TimesWire_filename(source, section, now) ==
    "newswire-" \o strftime(now) \o "-" \o Str(Arg(source, "all")) \o "_"
    \o Str(Arg(section, "all")) \o ".json"

TimesWire_save_articles(self, data, source, section, now, fs, writable) ==
    ApiNyTimes_save_data(self, data, TimesWire_filename(source, section, now),
                         fs, writable)

TimesWire_save_section_list(self, data, fs, writable) ==
    ApiNyTimes_save_data(self, data, "newswire-sections.json", fs, writable)

(***************************************************************************)
(* class ExtractApiNewsWire                                                *)
(***************************************************************************)

\* ExtractApiNewsWire.__init__(repo_path): KeyError without NY_API_KEY.
ExtractApiNewsWire_new(e, repo_path) ==
    IF "NY_API_KEY" \notin DOMAIN e THEN NoObject
    ELSE [class |-> "ExtractApiNewsWire",
          API_KEY |-> e["NY_API_KEY"],
          BASE_URL |-> getenv(e, "BASE_URL", DefaultBaseUrl),
          repo_path |-> repo_path]

ExtractApiNewsWire_url_path(endpoint, source, section) ==
    IF Truthy(endpoint) THEN "/svc/news/v3/content/section-list.json"
    ELSE "/svc/news/v3/content/" \o Str(source) \o "/" \o Str(section) \o ".json"

ExtractApiNewsWire_get_data(self, endpoint, source, section, resp) ==
    LET url == urljoin(self.BASE_URL,
                       ExtractApiNewsWire_url_path(endpoint, source, section))
        params == "api-key" :> self.API_KEY
    IN  get_json(url, params, <<>>, resp)

\* A slip: every parameter formatted into the name, supplied or not.
ExtractApiNewsWire_filename_unguarded(endpoint, source, section, now) ==
    "newswire-" \o strftime(now) \o "-" \o Str(endpoint) \o "-" \o Str(source)
    \o "-" \o Str(section) \o ".json"

ExtractApiNewsWire_filename(endpoint, source, section, now) ==
    "newswire-" \o strftime(now)
    \o (IF Truthy(endpoint) THEN "-" \o endpoint ELSE "")
    \o (IF Truthy(source) THEN "-" \o source ELSE "")
    \o (IF Truthy(section) THEN "-" \o section ELSE "")
    \o ".json"

ExtractApiNewsWire_save_data(self, endpoint, source, section, data, now, fs, writable) ==
    LET filename == ExtractApiNewsWire_filename(endpoint, source, section, now)
        filepath == IF Truthy(self.repo_path) THEN self.repo_path \o filename
                    ELSE "../../assets/data/raw/" \o filename
    IN  IF ~writable THEN [exc |-> "OSError", path |-> filepath, files |-> fs]
        ELSE [exc |-> "", path |-> filepath,
              files |-> write_json(fs, filepath, data)]

(***************************************************************************)
(* The state: one process and its caller                                   *)
(***************************************************************************)
VARIABLES
    env,       \* os.environ of the process, fixed when it starts
    storage,   \* the storage directory the caller passes to constructors
    client,    \* the caller's client object, or NoObject
    files,     \* the disk: path |-> the characters of the file
    clock,     \* seconds since the process started
    lastCall   \* the call that has just ended, until the caller goes on

vars == <<env, storage, client, files, clock, lastCall>>

\* The bound of the model: the seconds a run lasts.
MaxClock == 1

\* The arguments callers pass.
Sources == {"all", "nyt", "inyt"}
Sections == {"arts", "business"}
Periods == {1, 7, 30}
PopularEndpoints == {"emailed", "shared", "viewed"}
WireEndpoints == {"content", "section-list"}
StoragePaths == {None, "/data/"}
Uris == {None, BASE_WIRE}
QueryPayloads ==
    <<PyNone, <<>>, "limit" :> "20", ("api-key" :> "key-2") @@ ("limit" :> "20")>>
DirectUrls == {BASE_WIRE_SECTION_LIST, BASE_POPULAR_VIEWED \o "/1.json"}
DirectFilenames == {"newswire-sections.json"}
\* The (endpoint, source, section) of the fetches and saves of a session.
SessionFetches ==
    {<<None, "all", "arts">>, <<None, "nyt", "business">>,
     <<"section-list", None, None>>}
SessionSaves == {<<None, "all", "arts">>}

\* The record of a call: the method, its arguments, the exception it raised
\* ("" when it returned), the value it returned, the requests it sent, the
\* status of the answer (0 without one), and for a save the file name, the
\* path and the files that were on the disk before.
Call(op, args, exc, value, requests, status, filename, path, before) ==
    [op |-> op, args |-> args, exc |-> exc, value |-> value,
     requests |-> requests, status |-> status,
     filename |-> filename, path |-> path, before |-> before]

Idle == Call("", <<>>, "", JNull, <<>>, 0, "", "", <<>>)

Fetched(op, args, r, resp) ==
    Call(op, args, r.exc, r.value, r.requests,
         IF r.requests = <<>> THEN 0 ELSE resp.status, "", "", <<>>)

Saved(op, args, r, filename, fs) ==
    Call(op, args, r.exc, JNull, <<>>, 0, filename, r.path, fs)

Constructed(op, args, object, requests, resp) ==
    Call(op, args, IF object = NoObject THEN "raised" ELSE "", JNull, requests,
         IF requests = <<>> THEN 0 ELSE resp.status, "", "", <<>>)

Init ==
    /\ env \in Environments
    /\ storage \in StoragePaths
    /\ client = NoObject
    /\ files = <<>>
    /\ clock = 0
    /\ lastCall = Idle

\* The caller takes the result of the call and goes on.
Resume ==
    /\ lastCall # Idle
    /\ lastCall' = Idle
    /\ UNCHANGED <<env, storage, client, files, clock>>

\* A second passes.
Tick ==
    /\ lastCall = Idle
    /\ clock < MaxClock
    /\ clock' = clock + 1
    /\ UNCHANGED <<env, storage, client, files, lastCall>>

\* client = ApiNyTimes(storage, uri)
ApiNyTimes_init ==
    /\ lastCall = Idle
    /\ \E uri \in Uris :
        LET new == ApiNyTimes_new(env, storage, uri)
        IN  /\ client' = IF new = NoObject THEN client ELSE new
            /\ lastCall' = Constructed("ApiNyTimes.__init__",
                                       [path_storage |-> storage, uri |-> uri],
                                       new, <<>>, Idle)
    /\ UNCHANGED <<env, storage, files, clock>>

\* client._get_data(url, payload) on an ApiNyTimes
ApiNyTimes_get ==
    /\ lastCall = Idle
    /\ client.class = "ApiNyTimes"
    /\ \E url \in DirectUrls, n \in 1..Len(QueryPayloads), resp \in Responses :
        lastCall' = Fetched("ApiNyTimes._get_data",
                            [url |-> url, payload |-> QueryPayloads[n]],
                            call_get_data(client, <<url, QueryPayloads[n]>>, resp),
                            resp)
    /\ UNCHANGED <<env, storage, client, files, clock>>

\* client._save_data(data, filename) on an ApiNyTimes
ApiNyTimes_save ==
    /\ lastCall = Idle
    /\ client.class = "ApiNyTimes"
    /\ \E n \in 1..Len(Payloads), filename \in DirectFilenames, writable \in BOOLEAN :
        LET r == ApiNyTimes_save_data(client, Payloads[n], filename, files, writable)
        IN  /\ files' = r.files
            /\ lastCall' = Saved("ApiNyTimes._save_data",
                                 [data |-> Payloads[n], filename |-> filename],
                                 r, filename, files)
    /\ UNCHANGED <<env, storage, client, clock>>

\* client = MostPopular()
MostPopular_init ==
    /\ lastCall = Idle
    /\ client' = MostPopular_new
    /\ lastCall' = Constructed("MostPopular.__init__", <<>>, MostPopular_new,
                               <<>>, Idle)
    /\ UNCHANGED <<env, storage, files, clock>>

\* client.get_content(endpoint, period) on a MostPopular
MostPopular_content ==
    /\ lastCall = Idle
    /\ client.class = "MostPopular"
    /\ \E endpoint \in PopularEndpoints, period \in Periods, resp \in Responses :
        lastCall' = Fetched("MostPopular.get_content",
                            [endpoint |-> endpoint, period |-> period],
                            MostPopular_get_content(client, endpoint, period, resp),
                            resp)
    /\ UNCHANGED <<env, storage, client, files, clock>>

\* client.get_emailed(period) on a MostPopular
MostPopular_emailed ==
    /\ lastCall = Idle
    /\ client.class = "MostPopular"
    /\ \E period \in Periods, resp \in Responses :
        lastCall' = Fetched("MostPopular.get_emailed",
                            [endpoint |-> "emailed", period |-> period],
                            MostPopular_get_emailed(client, period, resp), resp)
    /\ UNCHANGED <<env, storage, client, files, clock>>

\* client.get_shared(period) on a MostPopular
MostPopular_shared ==
    /\ lastCall = Idle
    /\ client.class = "MostPopular"
    /\ \E period \in Periods, resp \in Responses :
        lastCall' = Fetched("MostPopular.get_shared",
                            [endpoint |-> "shared", period |-> period],
                            MostPopular_get_shared(client, period, resp), resp)
    /\ UNCHANGED <<env, storage, client, files, clock>>

\* client.get_viewed(period) on a MostPopular
MostPopular_viewed ==
    /\ lastCall = Idle
    /\ client.class = "MostPopular"
    /\ \E period \in Periods, resp \in Responses :
        lastCall' = Fetched("MostPopular.get_viewed",
                            [endpoint |-> "viewed", period |-> period],
                            MostPopular_get_viewed(client, period, resp), resp)
    /\ UNCHANGED <<env, storage, client, files, clock>>

\* client.save_content(data, endpoint, period) on a MostPopular
MostPopular_save ==
    /\ lastCall = Idle
    /\ client.class = "MostPopular"
    /\ \E n \in 1..Len(Payloads), endpoint \in PopularEndpoints, period \in Periods,
          writable \in BOOLEAN :
        LET r == MostPopular_save_content(client, Payloads[n], endpoint, period,
                                          files, writable)
        IN  /\ files' = r.files
            /\ lastCall' = Saved("MostPopular.save_content",
                                 [data |-> Payloads[n], endpoint |-> endpoint,
                                  period |-> period],
                                 r, MostPopular_filename(endpoint, period), files)
    /\ UNCHANGED <<env, storage, client, clock>>

\* client = TimesWire()
TimesWire_init ==
    /\ lastCall = Idle
    /\ \E resp \in Responses :
        LET new == TimesWire_new(resp)
        IN  /\ client' = IF new.object = NoObject THEN client ELSE new.object
            /\ lastCall' = Constructed("TimesWire.__init__", <<>>, new.object,
                                       new.call.requests, resp)
    /\ UNCHANGED <<env, storage, files, clock>>

\* client = ExtractApiNewsWire(storage)
ExtractApiNewsWire_init ==
    /\ lastCall = Idle
    /\ LET new == ExtractApiNewsWire_new(env, storage)
       IN  /\ client' = IF new = NoObject THEN client ELSE new
           /\ lastCall' = Constructed("ExtractApiNewsWire.__init__",
                                      [repo_path |-> storage], new, <<>>, Idle)
    /\ UNCHANGED <<env, storage, files, clock>>

\* client.get_data(endpoint, source, section) on an ExtractApiNewsWire
ExtractApiNewsWire_get ==
    /\ lastCall = Idle
    /\ client.class = "ExtractApiNewsWire"
    /\ \E a \in SessionFetches, resp \in Responses :
        lastCall' = Fetched("ExtractApiNewsWire.get_data",
                            [endpoint |-> a[1], source |-> a[2], section |-> a[3]],
                            ExtractApiNewsWire_get_data(client, a[1], a[2], a[3],
                                                        resp),
                            resp)
    /\ UNCHANGED <<env, storage, client, files, clock>>

\* client.save_data(endpoint, source, section, data) on an ExtractApiNewsWire
ExtractApiNewsWire_save ==
    /\ lastCall = Idle
    /\ client.class = "ExtractApiNewsWire"
    /\ \E a \in SessionSaves, n \in 1..Len(Payloads), writable \in BOOLEAN :
        LET r == ExtractApiNewsWire_save_data(client, a[1], a[2], a[3],
                                              Payloads[n], clock, files, writable)
        IN  /\ files' = r.files
            /\ lastCall' = Saved("ExtractApiNewsWire.save_data",
                                 [endpoint |-> a[1], source |-> a[2],
                                  section |-> a[3], data |-> Payloads[n]],
                                 r,
                                 ExtractApiNewsWire_filename(a[1], a[2], a[3], clock),
                                 files)
    /\ UNCHANGED <<env, storage, client, clock>>

Next ==
    \/ Resume
    \/ Tick
    \/ ApiNyTimes_init
    \/ ApiNyTimes_get
    \/ ApiNyTimes_save
    \/ MostPopular_init
    \/ MostPopular_content
    \/ MostPopular_emailed
    \/ MostPopular_shared
    \/ MostPopular_viewed
    \/ MostPopular_save
    \/ TimesWire_init
    \/ ExtractApiNewsWire_init
    \/ ExtractApiNewsWire_get
    \/ ExtractApiNewsWire_save

Spec == Init /\ [][Next]_vars

(***************************************************************************)
(* Single calls: each method applied to a receiver that holds what its     *)
(* class's __init__ assigns, for every argument of the model.  TimesWire() *)
(* assigns TimesWire_attrs and then raises, so a session never holds such  *)
(* a receiver; here the methods are taken as the functions they are.       *)
(***************************************************************************)

\* TimesWire.get_content(self, source, section)
TimesWire_content ==
    /\ lastCall = Idle
    /\ \E source \in Sources \cup {Omitted, None}, section \in Sections \cup {Omitted},
          resp \in Responses :
        lastCall' = Fetched("TimesWire.get_content",
                            [source |-> source, section |-> section],
                            TimesWire_get_content(TimesWire_attrs, source, section,
                                                  resp),
                            resp)
    /\ UNCHANGED <<env, storage, client, files, clock>>

\* TimesWire.get_section_list(self)
TimesWire_sections ==
    /\ lastCall = Idle
    /\ \E resp \in Responses :
        lastCall' = Fetched("TimesWire.get_section_list", <<>>,
                            TimesWire_get_section_list(TimesWire_attrs, resp), resp)
    /\ UNCHANGED <<env, storage, client, files, clock>>

\* TimesWire.save_articles(self, data, source, section)
TimesWire_save ==
    /\ lastCall = Idle
    /\ \E n \in 1..Len(Payloads), source \in Sources \cup {Omitted, None},
          section \in Sections \cup {Omitted, None}, writable \in BOOLEAN :
        LET r == TimesWire_save_articles(TimesWire_attrs, Payloads[n], source,
                                         section, clock, files, writable)
        IN  /\ files' = r.files
            /\ lastCall' = Saved("TimesWire.save_articles",
                                 [data |-> Payloads[n], source |-> source,
                                  section |-> section],
                                 r, TimesWire_filename(source, section, clock),
                                 files)
    /\ UNCHANGED <<env, storage, client, clock>>

\* TimesWire.save_section_list(self, data)
TimesWire_save_sections ==
    /\ lastCall = Idle
    /\ \E n \in 1..Len(Payloads), writable \in BOOLEAN :
        LET r == TimesWire_save_section_list(TimesWire_attrs, Payloads[n], files,
                                             writable)
        IN  /\ files' = r.files
            /\ lastCall' = Saved("TimesWire.save_section_list",
                                 [data |-> Payloads[n]], r,
                                 "newswire-sections.json", files)
    /\ UNCHANGED <<env, storage, client, clock>>

\* ExtractApiNewsWire(storage).get_data(endpoint, source, section)
ExtractApiNewsWire_get_any ==
    /\ lastCall = Idle
    /\ ExtractApiNewsWire_new(env, storage) # NoObject
    /\ \E endpoint \in WireEndpoints \cup {None, ""}, source \in Sources \cup {None},
          section \in Sections \cup {None}, resp \in Responses :
        lastCall' = Fetched("ExtractApiNewsWire.get_data",
                            [endpoint |-> endpoint, source |-> source,
                             section |-> section],
                            ExtractApiNewsWire_get_data(
                                ExtractApiNewsWire_new(env, storage), endpoint,
                                source, section, resp),
                            resp)
    /\ UNCHANGED <<env, storage, client, files, clock>>

\* The file name ExtractApiNewsWire.save_data(endpoint, source, section, data)
\* computes, before it opens the file.
ExtractApiNewsWire_name ==
    /\ lastCall = Idle
    /\ \E endpoint \in WireEndpoints \cup {None, ""}, source \in Sources \cup {None},
          section \in Sections \cup {None} :
        lastCall' = Call("ExtractApiNewsWire.save_data: filename",
                         [endpoint |-> endpoint, source |-> source,
                          section |-> section],
                         "", JNull, <<>>, 0,
                         ExtractApiNewsWire_filename(endpoint, source, section, clock),
                         "", files)
    /\ UNCHANGED <<env, storage, client, files, clock>>

NextCalls ==
    \/ Resume
    \/ Tick
    \/ TimesWire_content
    \/ TimesWire_sections
    \/ TimesWire_save
    \/ TimesWire_save_sections
    \/ ExtractApiNewsWire_get_any
    \/ ExtractApiNewsWire_name

SpecCalls == Init /\ [][NextCalls]_vars

(***************************************************************************)
(* The claims                                                              *)
(***************************************************************************)
ApiHost == "https://api.nytimes.com"

PopularFetches ==
    {"MostPopular.get_content", "MostPopular.get_emailed",
     "MostPopular.get_shared", "MostPopular.get_viewed"}
FetchOps ==
    PopularFetches
    \cup {"ApiNyTimes._get_data", "TimesWire.get_content",
          "TimesWire.get_section_list", "ExtractApiNewsWire.get_data"}
SaveOps == {"ApiNyTimes._save_data", "ExtractApiNewsWire.save_data"}
HasKey == "NY_API_KEY" \in DOMAIN env

\* C1: a content fetch for a source of {all, nyt, inyt} and a section, by
\* TimesWire.get_content or by ExtractApiNewsWire.get_data without an
\* endpoint, sends its GET to <host>/svc/news/v3/content/<source>/<section>.json.
C1_ContentFetchUrl ==
    LET a == lastCall.args
        host == IF lastCall.op = "TimesWire.get_content" THEN ApiHost
                ELSE UrlOrigin(getenv(env, "BASE_URL", DefaultBaseUrl))
    IN  (/\ \/ lastCall.op = "TimesWire.get_content"
            \/ lastCall.op = "ExtractApiNewsWire.get_data" /\ a.endpoint = None
         /\ a.source \in Sources
         /\ a.section \in Sections)
        => /\ Len(lastCall.requests) = 1
           /\ lastCall.requests[1].url =
                  host \o "/svc/news/v3/content/" \o a.source \o "/" \o a.section
                  \o ".json"

\* C2 as stated: every request carries the parameter api-key, and its value
\* is the NY_API_KEY of the environment the client was constructed in.
C2_KeyOfEnvironment ==
    \A n \in 1..Len(lastCall.requests) :
        /\ "api-key" \in DOMAIN lastCall.requests[n].params
        /\ lastCall.requests[n].params["api-key"] = env["NY_API_KEY"]

\* C2, amended: every request carries the parameter api-key; its value is the
\* NY_API_KEY of the environment the client was constructed in, unless the
\* payload given to _get_data has an api-key entry of its own, which is then
\* the value sent.
C2_KeyOnEveryRequest ==
    \A n \in 1..Len(lastCall.requests) :
        LET params == lastCall.requests[n].params
            payload == IF lastCall.op = "ApiNyTimes._get_data"
                       THEN lastCall.args.payload ELSE PyNone
        IN  /\ "api-key" \in DOMAIN params
            /\ IF payload # PyNone /\ "api-key" \in DOMAIN payload
               THEN params["api-key"] = payload["api-key"]
               ELSE HasKey /\ params["api-key"] = env["NY_API_KEY"]

\* C2's case: a request went out with the key of the environment, from a
\* call that passed other query parameters.
C2_Witness ==
    /\ lastCall.op = "ApiNyTimes._get_data"
    /\ lastCall.args.payload = "limit" :> "20"
    /\ Len(lastCall.requests) = 1
    /\ lastCall.requests[1].params["api-key"] = ApiKey
    /\ lastCall.requests[1].params["limit"] = "20"

\* C3: a fetch answered with a status outside 2xx raises ApiError and
\* returns no payload.
C3_ErrorStatusRaises ==
    (/\ lastCall.op \in FetchOps
     /\ lastCall.status # 0
     /\ lastCall.status \notin 200..299)
    => lastCall.exc = "ApiError"

\* C4: without NY_API_KEY every constructor fails and no request is sent.
C4_NoKeyNoClient ==
    ~HasKey => /\ client = NoObject
               /\ lastCall.requests = <<>>

\* C5: after a save that returned, the file at its path, parsed as JSON, is
\* the payload the save was given.
C5_FileParsesToPayload ==
    (lastCall.op \in SaveOps /\ lastCall.exc = "")
    => /\ lastCall.path \in DOMAIN files
       /\ json_loads(files[lastCall.path]).ok
       /\ json_loads(files[lastCall.path]).v = lastCall.args.data

\* C5's case: a payload with nested values and escaped characters was saved.
C5_Witness ==
    /\ lastCall.op \in SaveOps
    /\ lastCall.exc = ""
    /\ lastCall.args.data = OkArticles
    /\ lastCall.path \in DOMAIN files

\* The supplied ones of a save's parameters, in call order.
SuppliedArgs(xs) == SelectSeq(xs, LAMBDA x : x # Omitted /\ Truthy(x))

RECURSIVE JoinArgs(_, _, _)
JoinArgs(xs, first, sep) ==
    IF xs = <<>> THEN ""
    ELSE first \o Head(xs) \o JoinArgs(Tail(xs), sep, sep)

NameOps == {"ExtractApiNewsWire.save_data: filename", "TimesWire.save_articles"}
NameArgs ==
    IF lastCall.op = "TimesWire.save_articles"
    THEN <<lastCall.args.source, lastCall.args.section>>
    ELSE <<lastCall.args.endpoint, lastCall.args.source, lastCall.args.section>>
NameSeparator == IF lastCall.op = "TimesWire.save_articles" THEN "_" ELSE "-"

\* C6 as stated: the file name is the prefix and the timestamp, then exactly
\* the supplied parameters in call order, then .json; a parameter left out or
\* null adds nothing.
C6_OnlySuppliedArgs ==
    lastCall.op \in NameOps
    => lastCall.filename =
           "newswire-" \o strftime(clock)
           \o JoinArgs(SuppliedArgs(NameArgs), "-", NameSeparator) \o ".json"

\* What TimesWire.save_articles writes for a parameter: its default for one
\* left out, the text None for a null.
Rendered(x) == IF x = Omitted THEN "all" ELSE IF x = None THEN "None" ELSE x

\* C6, amended: ExtractApiNewsWire.save_data names the file by the prefix and
\* the timestamp, then exactly the supplied (non-null, non-empty) ones of
\* endpoint, source and section in call order, then .json.
\* TimesWire.save_articles has no endpoint and always writes both source and
\* section: "all" for one left out and "None" for a null.
C6_FilenameOfSave ==
    lastCall.op \in NameOps
    => lastCall.filename =
           "newswire-" \o strftime(clock)
           \o (IF lastCall.op = "TimesWire.save_articles"
               THEN JoinArgs(<<Rendered(lastCall.args.source),
                               Rendered(lastCall.args.section)>>, "-", "_")
               ELSE JoinArgs(SuppliedArgs(NameArgs), "-", "-"))
           \o ".json"

\* C6's case: a name was computed with the middle parameter null and the
\* others supplied.
C6_Witness ==
    /\ lastCall.op = "ExtractApiNewsWire.save_data: filename"
    /\ lastCall.args = [endpoint |-> "section-list", source |-> None,
                        section |-> "arts"]
    /\ clock = 1
    /\ lastCall.filename = "newswire-26_11_03-10_00_00-section-list-arts.json"

\* C7: a popularity fetch sends its GET to
\* <host>/svc/mostpopular/v2/<endpoint>/<period>.json.
C7_PopularFetchUrl ==
    lastCall.op \in PopularFetches
    => /\ Len(lastCall.requests) = 1
       /\ lastCall.requests[1].url =
              ApiHost \o "/svc/mostpopular/v2/" \o lastCall.args.endpoint \o "/"
              \o ToString(lastCall.args.period) \o ".json"

\* C8: a call of a fetch operation sends exactly one GET, whether it returns
\* or raises.
C8_OneGetPerFetch ==
    lastCall.op \in FetchOps => Len(lastCall.requests) = 1

\* C9: after a save that returned, the file at its path holds exactly the
\* serialised payload of that save, whatever was there before, and every
\* other file is as it was.
C9_LaterSaveReplaces ==
    (lastCall.op \in SaveOps /\ lastCall.exc = "")
    => /\ DOMAIN files = DOMAIN lastCall.before \cup {lastCall.path}
       /\ files[lastCall.path] = json_dump(lastCall.args.data)
       /\ \A p \in DOMAIN lastCall.before :
              p # lastCall.path => files[p] = lastCall.before[p]

\* C9's case: a save replaced a file of the same name that held another
\* payload, beside a file of another name.
C9_Witness ==
    /\ lastCall.op = "ExtractApiNewsWire.save_data"
    /\ lastCall.exc = ""
    /\ lastCall.path \in DOMAIN lastCall.before
    /\ lastCall.before[lastCall.path] # files[lastCall.path]
    /\ Len(lastCall.before[lastCall.path]) > Len(files[lastCall.path])
    /\ \E p \in DOMAIN files : p # lastCall.path

\* C10: TimesWire() returns a client after exactly one GET, to the
\* section-list endpoint, and the client holds the decoded answer.
C10_TimesWireConstructs ==
    lastCall.op = "TimesWire.__init__"
    => /\ Len(lastCall.requests) = 1
       /\ lastCall.requests[1].url = ApiHost \o "/svc/news/v3/content/section-list.json"
       /\ lastCall.exc = ""
       /\ client.class = "TimesWire"
=============================================================================
